---------------------------- MODULE Spec2Model ----------------------------
(***************************************************************************)
(* A model of the recursive ray tracer of src/src/main.rs: the sphere and  *)
(* scene intersectors, reflect/refract, cast_ray as an explicit stack of   *)
(* activations, and render (camera rays, framebuffer, tone mapping).       *)
(*                                                                         *)
(* Numbers.  The program computes in f64.  Here an f64 is a binary         *)
(* floating-point number <<m, e>> of value m * 2^e with a 24-bit mantissa: *)
(* m = 0 (and e = 0), or 2^23 <= |m| < 2^24.  Sums, products, quotients    *)
(* and square roots are correct to the last mantissa bit or two, so that   *)
(* the program's epsilon 1e-3 is far above the rounding error at the       *)
(* distances of a scene, as it is in f64.  NaN is a distinguished value    *)
(* and every ordered comparison with it is false; f64::MAX is a finite     *)
(* value above every distance.  Intermediate integers stay below 2^31.     *)
(***************************************************************************)
EXTENDS Integers, Sequences, FiniteSets, TLC

Mant == 2^24

HalfMant == 2^23

Abs(a) == IF a < 0 THEN -a ELSE a

Sgn(a) == IF a < 0 THEN -1 ELSE 1

RECURSIVE BitLen(_)
\* The number of bits of n >= 0.
BitLen(n) == IF n = 0 THEN 0 ELSE 1 + BitLen(n \div 2)

Zero == <<0, 0>>

NaN == <<0, 1>>

IsNaN(a) == a = NaN

IsZero(a) == a = Zero

\* n / 2^k rounded to the nearest integer, n >= 0, k >= 1.
ShiftRound(n, k) == (n \div 2^(k - 1) + 1) \div 2

\* The float of magnitude n * 2^e (n > 0 with len bits) and sign s.
Pack(s, n, e, len) ==
    IF len <= 24 THEN <<s * n * 2^(24 - len), e - (24 - len)>>
    ELSE IF ShiftRound(n, len - 24) = Mant
         THEN <<s * HalfMant, e + (len - 24) + 1>>
         ELSE <<s * ShiftRound(n, len - 24), e + (len - 24)>>

\* The float nearest to n * 2^e, for an integer |n| < 2^31.
Norm(n, e) == IF n = 0 THEN Zero ELSE Pack(Sgn(n), Abs(n), e, BitLen(Abs(n)))

\* The float of the integer n.
FromInt(n) == Norm(n, 0)

FNeg(a) == IF IsNaN(a) THEN NaN ELSE <<-a[1], a[2]>>

FAbs(a) == IF IsNaN(a) THEN NaN ELSE <<Abs(a[1]), a[2]>>

\* floor(x * y / 2^18) for mantissas x = xh * 2^12 + xl, y = yh * 2^12 + yl
MulParts(xh, xl, yh, yl) ==
    64 * xh * yh + ((xh * yl + xl * yh) + (xl * yl) \div 4096) \div 64

MulMant(x, y) == MulParts(x \div 4096, x % 4096, y \div 4096, y % 4096)

\* a * b on f64
FMul(a, b) ==
    IF IsNaN(a) \/ IsNaN(b) THEN NaN
    ELSE IF IsZero(a) \/ IsZero(b) THEN Zero
    ELSE Norm(Sgn(a[1]) * Sgn(b[1]) * MulMant(Abs(a[1]), Abs(b[1])),
              a[2] + b[2] + 18)

\* m / 2^d toward zero
ShiftDown(m, d) == Sgn(m) * (Abs(m) \div 2^d)

\* a + b for nonzero a and b with a[2] >= b[2]: six guard bits.
AddOrdered(a, b) ==
    IF a[2] - b[2] > 30 THEN a
    ELSE Norm(a[1] * 64 + ShiftDown(b[1] * 64, a[2] - b[2]), a[2] - 6)

\* a + b on f64
FAdd(a, b) ==
    IF IsNaN(a) \/ IsNaN(b) THEN NaN
    ELSE IF IsZero(a) THEN b
    ELSE IF IsZero(b) THEN a
    ELSE IF a[2] >= b[2] THEN AddOrdered(a, b) ELSE AddOrdered(b, a)

\* a - b on f64
FSub(a, b) == FAdd(a, FNeg(b))

RECURSIVE LongDiv(_, _, _, _)
\* The quotient q followed by `steps` more base-64 digits of r / y, r < y.
LongDiv(q, r, y, steps) ==
    IF steps = 0 THEN q
    ELSE LongDiv(q * 64 + (r * 64) \div y, (r * 64) % y, y, steps - 1)

\* floor(x * 2^30 / y) for mantissas x and y
DivMant(x, y) == LongDiv(x \div y, x % y, y, 5)

\* a / b on f64; 0 / 0 is NaN, and x / 0 is beyond every finite value.
FDiv(a, b) ==
    IF IsNaN(a) \/ IsNaN(b) THEN NaN
    ELSE IF IsZero(b)
         THEN (IF IsZero(a) THEN NaN ELSE <<Sgn(a[1]) * HalfMant, 2000>>)
    ELSE IF IsZero(a) THEN Zero
    ELSE Norm(Sgn(a[1]) * Sgn(b[1]) * DivMant(Abs(a[1]), Abs(b[1])),
              a[2] - b[2] - 30)

CeilDiv(n, d) == (n + d - 1) \div d

\* r * r <= m * 2^24 for r = rh * 2^12 + rl
SqLeParts(rh, rl, m) ==
    rh * rh + CeilDiv(rh * rl + CeilDiv(rl * rl, 8192), 2048) <= m

SqLe(r, m) == SqLeParts(r \div 4096, r % 4096, m)

RECURSIVE SqrtSearch(_, _, _)
\* The greatest r in lo .. hi - 1 with r * r <= m * 2^24.
SqrtSearch(m, lo, hi) ==
    IF hi - lo <= 1 THEN lo
    ELSE IF SqLe((lo + hi) \div 2, m)
         THEN SqrtSearch(m, (lo + hi) \div 2, hi)
         ELSE SqrtSearch(m, lo, (lo + hi) \div 2)

\* sqrt(m * 2^e) for m > 0 and an even e
SqrtEven(m, e) == Norm(SqrtSearch(m, 0, 2 * Mant), e \div 2 - 12)

\* f64::sqrt; NaN below zero
FSqrt(a) ==
    IF IsNaN(a) \/ a[1] < 0 THEN NaN
    ELSE IF IsZero(a) THEN Zero
    ELSE IF a[2] % 2 = 0 THEN SqrtEven(a[1], a[2])
    ELSE SqrtEven(2 * a[1], a[2] - 1)

\* a < b on f64: false when either is NaN
FLt(a, b) == ~IsNaN(a) /\ ~IsNaN(b) /\ FSub(a, b)[1] < 0

\* a > b on f64
FGt(a, b) == FLt(b, a)

\* f64::max and f64::min: a NaN operand is ignored.
FMax(a, b) == IF IsNaN(a) THEN b ELSE IF IsNaN(b) THEN a
              ELSE IF FLt(a, b) THEN b ELSE a

FMin(a, b) == IF IsNaN(a) THEN b ELSE IF IsNaN(b) THEN a
              ELSE IF FLt(b, a) THEN b ELSE a

\* f64::clamp
Clamp(a, lo, hi) ==
    IF FLt(a, lo) THEN lo ELSE IF FGt(a, hi) THEN hi ELSE a

\* The decimal literal n / d.
Lit(n, d) == FDiv(FromInt(n), FromInt(d))

One == FromInt(1)

\* The integer part of a (toward zero), saturating at +-2^30: `as` to an
\* integer type, before the type's own range is applied.  NaN casts to 0.
Trunc(a) ==
    IF IsNaN(a) \/ IsZero(a) THEN 0
    ELSE IF a[2] > 6 THEN Sgn(a[1]) * 2^30
    ELSE IF a[2] >= 0 THEN a[1] * 2^a[2]
    ELSE IF a[2] < -24 THEN 0
    ELSE ShiftDown(a[1], -a[2])

\* f64::MAX: finite, above every distance of a scene
F64_MAX == <<Mant - 1, 1000>>

(***************************************************************************)
(* vek::Vec3<f64> and vek::Rgb<f64>: triples of f64.                       *)
(***************************************************************************)
Vec3(x, y, z) == <<x, y, z>>

Rgb(r, g, b) == <<r, g, b>>

VZero == <<Zero, Zero, Zero>>

VAdd(a, b) == <<FAdd(a[1], b[1]), FAdd(a[2], b[2]), FAdd(a[3], b[3])>>

VSub(a, b) == <<FSub(a[1], b[1]), FSub(a[2], b[2]), FSub(a[3], b[3])>>

VNeg(a) == <<FNeg(a[1]), FNeg(a[2]), FNeg(a[3])>>

VScale(a, k) == <<FMul(a[1], k), FMul(a[2], k), FMul(a[3], k)>>

VDiv(a, k) == <<FDiv(a[1], k), FDiv(a[2], k), FDiv(a[3], k)>>

Dot(a, b) ==
    FAdd(FAdd(FMul(a[1], b[1]), FMul(a[2], b[2])), FMul(a[3], b[3]))

Magnitude(a) == FSqrt(Dot(a, a))

\* vek's normalized(): self / self.magnitude(); the zero vector becomes NaN
Normalized(a) == VDiv(a, Magnitude(a))

(***************************************************************************)
(* Option<T>: None is the empty sequence, Some(x) the one-element one.     *)
(***************************************************************************)
None == <<>>

Some(x) == <<x>>

IsSome(o) == Len(o) = 1

Unwrap(o) == o[1]

(***************************************************************************)
(* Material, Light, Ray, Sphere.  specular_exponent is kept as a whole     *)
(* number (every exponent of the program is one); the other fields are     *)
(* f64.                                                                    *)
(***************************************************************************)
Material_new(refractive_index, albedo, color, specular_exponent) ==
    [refractive_index |-> refractive_index, albedo |-> albedo,
     diffuse_color |-> color, specular_exponent |-> specular_exponent]

Material_default ==
    [refractive_index |-> One, albedo |-> <<One, Zero, Zero, Zero>>,
     diffuse_color |-> Rgb(Zero, Zero, Zero), specular_exponent |-> 0]

Light_new(position, intensity) ==
    [position |-> position, intensity |-> intensity]

Ray_new(origin, direction) == [origin |-> origin, direction |-> direction]

Sphere_new(center, radius, material) ==
    [center |-> center, radius |-> radius, material |-> material]

(***************************************************************************)
(* Sphere::intersect, split at its let bindings: each operator receives    *)
(* the values bound so far.                                                *)
(***************************************************************************)
\* The test for a sphere behind the origin left out.
Sphere_t1_never(t1) == FALSE

\* if t1 < 0. { None }
Sphere_t1_behind(t1) == FLt(t1, Zero)

\* if t1 < 0. { None } else { Some(if t0 < 0. { t1 } else { t0 }) }
Sphere_roots(t0, t1) ==
    IF Sphere_t1_behind(t1) THEN None
    ELSE Some(IF FLt(t0, Zero) THEN t1 ELSE t0)

\* let t0 = tca - thc; let t1 = tca + thc;
Sphere_thc(tca, thc) == Sphere_roots(FSub(tca, thc), FAdd(tca, thc))

\* if d2 > radius2 { None } else { let thc = (radius2 - d2).sqrt(); .. }
Sphere_d2(tca, d2, radius2) ==
    IF FGt(d2, radius2) THEN None
    ELSE Sphere_thc(tca, FSqrt(FSub(radius2, d2)))

\* let d2 = v_l.dot(v_l) - tca * tca; let radius2 = radius * radius;
Sphere_tca(v_l, tca, radius) ==
    Sphere_d2(tca, FSub(Dot(v_l, v_l), FMul(tca, tca)), FMul(radius, radius))

\* let v_l = self.center - ray.origin; let tca = v_l.dot(ray.direction);
Sphere_v_l(v_l, direction, radius) ==
    Sphere_tca(v_l, Dot(v_l, direction), radius)

Sphere_intersect(sphere, ray) ==
    Sphere_v_l(VSub(sphere.center, ray.origin), ray.direction, sphere.radius)

(***************************************************************************)
(* reflect, refract, offset_point.                                         *)
(***************************************************************************)
reflect(v_in, v_normal) ==
    VSub(v_in, VScale(VScale(v_normal, FromInt(2)), Dot(v_in, v_normal)))

\* if k < 0. { Vec3::zero() } else { v_in * eta + n * (eta * cosi - k.sqrt()) }
refract_k(v_in, n, eta, cosi, k) ==
    IF FLt(k, Zero) THEN VZero
    ELSE VAdd(VScale(v_in, eta),
              VScale(n, FSub(FMul(eta, cosi), FSqrt(k))))

\* let k = 1.0 - eta * eta * (1.0 - cosi * cosi);
refract_eta(v_in, n, eta, cosi) ==
    refract_k(v_in, n, eta, cosi,
              FSub(One, FMul(FMul(eta, eta), FSub(One, FMul(cosi, cosi)))))

\* if cosi < 0. { cosi = -cosi; swap(etai, etat); n = -n; }
\* let eta = etai / etat;
refract_cosi(v_in, v_normal, refractive_index, cosi) ==
    IF FLt(cosi, Zero)
    THEN refract_eta(v_in, VNeg(v_normal), FDiv(refractive_index, One),
                     FNeg(cosi))
    ELSE refract_eta(v_in, v_normal, FDiv(One, refractive_index), cosi)

\* let mut cosi = -v_in.dot(*v_normal).clamp(-1., 1.);
refract(v_in, v_normal, refractive_index) ==
    refract_cosi(v_in, v_normal, refractive_index,
                 FNeg(Clamp(Dot(v_in, v_normal), FNeg(One), One)))

\* 1e-3
Epsilon == Lit(1, 1000)

offset_point(point, normal, dot_product) ==
    IF FLt(dot_product, Zero)
    THEN VSub(point, VScale(normal, Epsilon))
    ELSE VAdd(point, VScale(normal, Epsilon))

(***************************************************************************)
(* Scene::intersect.  SphereScan is the loop over the spheres (the state   *)
(* it leaves in hit, v_normal, material and spheres_dist); the plane test  *)
(* and the cutoff follow it.                                               *)
(***************************************************************************)
ScanInit ==
    [hit |-> VZero, v_normal |-> VZero, material |-> Material_default,
     spheres_dist |-> F64_MAX]

\* The loop body's assignments, hit being ray.origin + ray.direction * dist_i.
ScanTake(sphere, hit, dist_i) ==
    [hit |-> hit, v_normal |-> Normalized(VSub(hit, sphere.center)),
     material |-> sphere.material, spheres_dist |-> dist_i]

\* if let Some(dist_i) = dist_i { if dist_i < spheres_dist { .. } }
ScanUpdate(acc, sphere, ray, dist_i) ==
    IF IsSome(dist_i) /\ FLt(Unwrap(dist_i), acc.spheres_dist)
    THEN ScanTake(sphere,
                  VAdd(ray.origin, VScale(ray.direction, Unwrap(dist_i))),
                  Unwrap(dist_i))
    ELSE acc

ScanStep(acc, sphere, ray) ==
    ScanUpdate(acc, sphere, ray, Sphere_intersect(sphere, ray))

RECURSIVE ScanFrom(_, _, _, _)
\* for sphere in &self.spheres, from the i-th on
ScanFrom(acc, spheres, i, ray) ==
    IF i > Len(spheres) THEN acc
    ELSE ScanFrom(ScanStep(acc, spheres[i], ray), spheres, i + 1, ray)

SphereScan(spheres, ray) == ScanFrom(ScanInit, spheres, 1, ray)

\* let d = -(ray.origin.y + 4.) / ray.direction.y;
PlaneDistance(ray) ==
    FDiv(FNeg(FAdd(ray.origin[2], FromInt(4))), ray.direction[2])

\* let pt = ray.origin + ray.direction * d;
PlanePoint(ray) == VAdd(ray.origin, VScale(ray.direction, PlaneDistance(ray)))

\* ray.direction.y.abs() > 1e-3
PlaneTested(ray) == FGt(FAbs(ray.direction[2]), Lit(1, 1000))

\* d > 0. && pt.x.abs() < 10. && pt.z < -10. && pt.z > -30. && d < spheres_dist
PlaneInside(d, pt, spheres_dist) ==
    /\ FGt(d, Zero)
    /\ FLt(FAbs(pt[1]), FromInt(10))
    /\ FLt(pt[3], FromInt(-10))
    /\ FGt(pt[3], FromInt(-30))
    /\ FLt(d, spheres_dist)

PlaneAccepted(ray, spheres_dist) ==
    /\ PlaneTested(ray)
    /\ PlaneInside(PlaneDistance(ray), PlanePoint(ray), spheres_dist)

\* The conversion rounding down instead.
AsIsizeFloor(v) == IF FLt(FromInt(Trunc(v)), v) \/ FromInt(Trunc(v)) = v
                   THEN Trunc(v) ELSE Trunc(v) - 1

\* `as isize`: the integer part, toward zero
AsIsize(v) == Trunc(v)

\* ((0.5 * hit.x + 1000.) as isize + (0.5 * hit.z) as isize) & 1 == 1
CheckerOdd(hit) ==
    (AsIsize(FAdd(FMul(Lit(1, 2), hit[1]), FromInt(1000)))
       + AsIsize(FMul(Lit(1, 2), hit[3]))) % 2 = 1

ShadeOdd == Rgb(Lit(3, 10), Lit(3, 10), Lit(3, 10))

ShadeEven == Rgb(Lit(3, 10), Lit(2, 10), Lit(1, 10))

CheckerColor(hit) == IF CheckerOdd(hit) THEN ShadeOdd ELSE ShadeEven

\* material.diffuse_color = ..: the scan's material, its colour overwritten.
PlaneMaterial(material, hit) ==
    [material EXCEPT !.diffuse_color = CheckerColor(hit)]

PlaneHit(scan, pt) ==
    [point |-> pt, v_normal |-> Vec3(Zero, One, Zero),
     material |-> PlaneMaterial(scan.material, pt)]

SphereHit(scan) ==
    [point |-> scan.hit, v_normal |-> scan.v_normal,
     material |-> scan.material]

\* 1000.
DistanceCutoff == FromInt(1000)

\* if spheres_dist.min(checkerboard_dist) < 1000. { Some(..) } else { None }
Scene_result(scan, plane, ray) ==
    IF FLt(FMin(scan.spheres_dist,
                IF plane THEN PlaneDistance(ray) ELSE F64_MAX),
           DistanceCutoff)
    THEN Some(IF plane THEN PlaneHit(scan, PlanePoint(ray)) ELSE SphereHit(scan))
    ELSE None

Scene_scanned(scan, ray) ==
    Scene_result(scan, PlaneAccepted(ray, scan.spheres_dist), ray)

\* The plane test succeeds after the scan of spheres: the hit is the plane's.
Scene_plane(spheres, ray) ==
    PlaneAccepted(ray, SphereScan(spheres, ray).spheres_dist)

Scene_intersect(spheres, ray) == Scene_scanned(SphereScan(spheres, ray), ray)

(***************************************************************************)
(* The state.  cast_ray is recursive; its activations are the frames of    *)
(* stack (the last one is running), and ret is the value the activation    *)
(* that has just returned hands to its caller.  render walks the pixels,   *)
(* fills framebuffer, then tone-maps every pixel into out.                 *)
(***************************************************************************)
VARIABLES
    spheres,      \* the spheres given to render / cast_ray
    lights,       \* the lights given to render / cast_ray
    stack,        \* the activations of cast_ray, outermost first
    ret,          \* None, or Some of the (colour, depth) just returned
    rpc,          \* render: "trace", "emit", "done"; "call" for a call of
                  \* cast_ray on its own, "apply" for a function on its own
    px,           \* render: the index of the pixel being traced or emitted
    framebuffer,  \* render: the colours traced so far, in loop order
    out,          \* render: the byte triples written so far
    probe         \* the argument and result of a function applied on its own

vars == <<spheres, lights, stack, ret, rpc, px, framebuffer, out, probe>>

\* Rgb::new(0.2, 0.7, 0.8)
BackgroundColor == Rgb(Lit(2, 10), Lit(7, 10), Lit(8, 10))

White == Rgb(One, One, One)

MaxDepth == 4

\* The limit taken one level too late.
DepthExceededLate(depth) == depth > MaxDepth + 1

\* depth > 4
DepthExceeded(depth) == depth > MaxDepth

\* The depth not increased.
NextDepthSame(depth) == depth

\* The depth increased by two.
NextDepthSkip(depth) == depth + 2

\* depth + 1, the depth handed to both nested calls
NextDepth(depth) == depth + 1

\* An activation of cast_ray(ray, spheres, lights, depth) about to run.
\* calls counts the nested calls the activation has made.
Frame(ray, depth) ==
    [ray |-> ray, depth |-> depth, pc |-> "start", calls |-> 0,
     point |-> VZero, v_normal |-> VZero, material |-> Material_default,
     refract_ray |-> Ray_new(VZero, VZero),
     reflect_color |-> VZero, refract_color |-> VZero,
     light |-> 1, diffuse_light_intensity |-> Zero,
     specular_light_intensity |-> Zero]

Top == stack[Len(stack)]

Running == Len(stack) > 0 /\ ret = None

Pop == SubSeq(stack, 1, Len(stack) - 1)

SetTop(f) == [stack EXCEPT ![Len(stack)] = f]

Return(color) ==
    /\ ret' = Some([color |-> color, depth |-> Top.depth])
    /\ stack' = Pop

\* if depth > 4 { (Rgb::new(0.2, 0.7, 0.8), depth) }
CastRayDepthLimit ==
    /\ Running /\ Top.pc = "start"
    /\ DepthExceeded(Top.depth)
    /\ Return(BackgroundColor)
    /\ UNCHANGED <<spheres, lights, rpc, px, framebuffer, out, probe>>

\* else { (Rgb::new(0.2, 0.7, 0.8), depth) }: scene.intersect(ray) is None
CastRayMiss ==
    /\ Running /\ Top.pc = "start"
    /\ ~DepthExceeded(Top.depth)
    /\ ~IsSome(Scene_intersect(spheres, Top.ray))
    /\ Return(BackgroundColor)
    /\ UNCHANGED <<spheres, lights, rpc, px, framebuffer, out, probe>>

\* let reflect_orig = ..; let refract_orig = ..; the two rays
HitRays(f, h, reflect_dir, refract_dir) ==
    << [f EXCEPT !.pc = "reflect", !.calls = @ + 1, !.point = h.point,
                 !.v_normal = h.v_normal, !.material = h.material,
                 !.refract_ray =
                     Ray_new(offset_point(h.point, h.v_normal,
                                          Dot(refract_dir, h.v_normal)),
                             refract_dir)],
       Frame(Ray_new(offset_point(h.point, h.v_normal,
                                  Dot(reflect_dir, h.v_normal)),
                     reflect_dir),
             NextDepth(f.depth)) >>

\* let reflect_dir = reflect(..).normalized(); let refract_dir = ..;
\* The activation after the hit h, and the activation of the reflect call.
HitFrames(f, h) ==
    HitRays(f, h,
            Normalized(reflect(f.ray.direction, h.v_normal)),
            Normalized(refract(f.ray.direction, h.v_normal,
                               h.material.refractive_index)))

\* A hit: the reflect and refract rays are built and the reflect ray is cast.
CastRayHit ==
    /\ Running /\ Top.pc = "start"
    /\ ~DepthExceeded(Top.depth)
    /\ IsSome(Scene_intersect(spheres, Top.ray))
    /\ stack' = Pop \o HitFrames(Top, Unwrap(Scene_intersect(spheres, Top.ray)))
    /\ UNCHANGED <<spheres, lights, ret, rpc, px, framebuffer, out, probe>>

\* The reflect call has returned; the refract ray is cast.
CastRayReflected ==
    /\ Len(stack) > 0 /\ IsSome(ret) /\ Top.pc = "reflect"
    /\ stack' = Append(SetTop([Top EXCEPT !.pc = "refract", !.calls = @ + 1,
                                          !.reflect_color = Unwrap(ret).color]),
                       Frame(Top.refract_ray, NextDepth(Top.depth)))
    /\ ret' = None
    /\ UNCHANGED <<spheres, lights, rpc, px, framebuffer, out, probe>>

\* The refract call has returned; the loop over the lights starts.
CastRayRefracted ==
    /\ Len(stack) > 0 /\ IsSome(ret) /\ Top.pc = "refract"
    /\ stack' = SetTop([Top EXCEPT !.pc = "lights",
                                   !.refract_color = Unwrap(ret).color,
                                   !.light = 1,
                                   !.diffuse_light_intensity = Zero,
                                   !.specular_light_intensity = Zero])
    /\ ret' = None
    /\ UNCHANGED <<spheres, lights, rpc, px, framebuffer, out, probe>>

(***************************************************************************)
(* The loop over the lights, one light per step, for the activation f.     *)
(***************************************************************************)
RECURSIVE PowInt(_, _)
PowInt(x, n) ==
    IF n = 0 THEN One
    ELSE IF n % 2 = 1 THEN FMul(PowInt(x, n - 1), x)
    ELSE PowInt(FMul(x, x), n \div 2)

\* f64::powf(x, e) for x >= 0 and a whole exponent e >= 0; powf(0, 0) = 1.
Powf(x, e) == PowInt(x, e)

\* let v_light = light.position - point;
LightVector(f, light) == VSub(light.position, f.point)

\* let light_dir = v_light.normalized();
LightDir(f, light) == Normalized(LightVector(f, light))

\* let light_distance = v_light.magnitude();
LightDistance(f, light) == Magnitude(LightVector(f, light))

\* let shadow_orig = offset_point(&point, &v_normal, light_dir.dot(v_normal));
ShadowOrigin(f, light) ==
    offset_point(f.point, f.v_normal, Dot(LightDir(f, light), f.v_normal))

ShadowRay(f, light) == Ray_new(ShadowOrigin(f, light), LightDir(f, light))

\* (shadow_pt - shadow_orig).magnitude() < light_distance
ShadowCloser(s, shadow_orig, light_distance) ==
    /\ IsSome(s)
    /\ FLt(Magnitude(VSub(Unwrap(s).point, shadow_orig)), light_distance)

\* if let Some((shadow_pt, _, _)) = scene.intersect(..) { if .. { continue; } }
Shadowed(f, light) ==
    ShadowCloser(Scene_intersect(spheres, ShadowRay(f, light)),
                 ShadowOrigin(f, light), LightDistance(f, light))

\* light.intensity * light_dir.dot(v_normal).max(0.)
DiffuseTerm(f, light) ==
    FMul(light.intensity, FMax(Dot(LightDir(f, light), f.v_normal), Zero))

\* reflect(&light_dir, &v_normal).dot(ray.direction).max(0.).powf(..)
SpecularTerm(f, light) ==
    Powf(FMax(Dot(reflect(LightDir(f, light), f.v_normal), f.ray.direction),
              Zero),
         f.material.specular_exponent)

\* One turn of `for light in lights`.
LightStep(f, light) ==
    IF Shadowed(f, light)
    THEN [f EXCEPT !.light = @ + 1]
    ELSE [f EXCEPT !.light = @ + 1,
            !.diffuse_light_intensity = FAdd(@, DiffuseTerm(f, light)),
            !.specular_light_intensity = FAdd(@, SpecularTerm(f, light))]

CastRayLight ==
    /\ Running /\ Top.pc = "lights" /\ Top.light <= Len(lights)
    /\ stack' = SetTop(LightStep(Top, lights[Top.light]))
    /\ UNCHANGED <<spheres, lights, ret, rpc, px, framebuffer, out, probe>>

RgbAdd(a, b) == VAdd(a, b)

RgbScale(a, k) == VScale(a, k)

\* The colour cast_ray returns for a hit.
ShadeColor(f) ==
    RgbAdd(RgbAdd(RgbAdd(
      RgbScale(RgbScale(f.material.diffuse_color, f.diffuse_light_intensity),
               f.material.albedo[1]),
      RgbScale(RgbScale(White, f.specular_light_intensity),
               f.material.albedo[2])),
      RgbScale(f.reflect_color, f.material.albedo[3])),
      RgbScale(f.refract_color, f.material.albedo[4]))

CastRayShade ==
    /\ Running /\ Top.pc = "lights" /\ Top.light > Len(lights)
    /\ Return(ShadeColor(Top))
    /\ UNCHANGED <<spheres, lights, rpc, px, framebuffer, out, probe>>

CastRayStep ==
    \/ CastRayDepthLimit
    \/ CastRayMiss
    \/ CastRayHit
    \/ CastRayReflected
    \/ CastRayRefracted
    \/ CastRayLight
    \/ CastRayShade

(***************************************************************************)
(* render.  The image is WIDTH x HEIGHT; the model traces a sample of       *)
(* PixelsPerAxis columns by PixelsPerAxis rows of it, in the loop's order   *)
(* (row by row), and then emits the same pixels in the same order.          *)
(***************************************************************************)
WIDTH == 1024

HEIGHT == 768

\* (FOV as f64 / 2.).tan() with FOV = FRAC_PI_2 as usize = 1: tan(0.5)
TanHalfFov == Lit(5463025, 10000000)

PixelsPerAxis == 4

NumPixels == PixelsPerAxis * PixelsPerAxis

\* The k-th sampled column (row) of n, k in 0 .. PixelsPerAxis - 1.
SampleAt(k, n) == ((2 * k + 1) * n) \div (2 * PixelsPerAxis)

PixelI(p) == SampleAt((p - 1) % PixelsPerAxis, WIDTH)

PixelJ(p) == SampleAt((p - 1) \div PixelsPerAxis, HEIGHT)

\* let aspect_ratio = WIDTH as f64 / HEIGHT as f64;
AspectRatio == FDiv(FromInt(WIDTH), FromInt(HEIGHT))

\* 2. * (i as f64 + 0.5) / n as f64 - 1.
Ndc(i, n) ==
    FSub(FDiv(FMul(FromInt(2), FAdd(FromInt(i), Lit(1, 2))), FromInt(n)), One)

\* let dir = Vec3::new(x, y, -1.).normalized(); Ray::new(Vec3::zero(), dir)
CameraRay(i, j) ==
    Ray_new(VZero,
            Normalized(Vec3(FMul(FMul(Ndc(i, WIDTH), TanHalfFov), AspectRatio),
                            FMul(FNeg(Ndc(j, HEIGHT)), TanHalfFov),
                            FNeg(One))))

\* `as u8`: truncation, saturating at 0 and 255.
AsU8(v) ==
    IF Trunc(v) < 0 THEN 0 ELSE IF Trunc(v) > 255 THEN 255 ELSE Trunc(v)

\* pixel.iter().fold(0.0, |acc, &x| acc.max(x))
ChannelMax(pixel) == FMax(FMax(FMax(Zero, pixel[1]), pixel[2]), pixel[3])

\* The division done whatever max is.
ScaleByMaxAlways(pixel, max) == VDiv(pixel, max)

\* The division never done.
ScaleByMaxNever(pixel, max) == pixel

\* if max > 1. { pixel / max } else { pixel }
ScaleByMax(pixel, max) == IF FGt(max, One) THEN VDiv(pixel, max) ELSE pixel

ScaledPixel(pixel) == ScaleByMax(pixel, ChannelMax(pixel))

\* (255. * x.clamp(0., 1.)) as u8
ToByte(x) == AsU8(FMul(FromInt(255), Clamp(x, Zero, One)))

Bytes(scaled_pixel) ==
    <<ToByte(scaled_pixel[1]), ToByte(scaled_pixel[2]), ToByte(scaled_pixel[3])>>

ToneMap(pixel) == Bytes(ScaledPixel(pixel))

\* The primary ray of the p-th sampled pixel.
PrimaryRay(p) == CameraRay(PixelI(p), PixelJ(p))

\* (*pixel, _) = cast_ray(&ray, spheres, lights, 0): the call
RenderCast ==
    /\ rpc = "trace" /\ Len(stack) = 0 /\ ret = None /\ px <= NumPixels
    /\ stack' = <<Frame(PrimaryRay(px), 0)>>
    /\ UNCHANGED <<spheres, lights, ret, rpc, px, framebuffer, out, probe>>

\* (*pixel, _) = cast_ray(..): the assignment, and the loop's step
RenderStore ==
    /\ rpc = "trace" /\ Len(stack) = 0 /\ IsSome(ret)
    /\ framebuffer' = Append(framebuffer, Unwrap(ret).color)
    /\ ret' = None
    /\ IF px < NumPixels
       THEN px' = px + 1 /\ rpc' = rpc
       ELSE px' = 1 /\ rpc' = "emit"
    /\ UNCHANGED <<spheres, lights, stack, out, probe>>

\* The second loop: one pixel tone-mapped and written.
RenderEmit ==
    /\ rpc = "emit"
    /\ out' = Append(out, ToneMap(framebuffer[px]))
    /\ IF px < NumPixels
       THEN px' = px + 1 /\ rpc' = rpc
       ELSE px' = px /\ rpc' = "done"
    /\ UNCHANGED <<spheres, lights, stack, ret, framebuffer, probe>>

(***************************************************************************)
(* Scenes.  MainSpheres and MainLights are the scene of main; the others   *)
(* are further arguments of render.                                        *)
(***************************************************************************)
ivory ==
    Material_new(One, <<Lit(6, 10), Lit(3, 10), Lit(1, 10), Zero>>,
                 Rgb(Lit(4, 10), Lit(4, 10), Lit(3, 10)), 50)

glass ==
    Material_new(Lit(15, 10), <<Zero, Lit(5, 10), Lit(1, 10), Lit(8, 10)>>,
                 Rgb(Lit(6, 10), Lit(7, 10), Lit(8, 10)), 125)

red_rubber ==
    Material_new(One, <<Lit(9, 10), Lit(1, 10), Zero, Zero>>,
                 Rgb(Lit(3, 10), Lit(1, 10), Lit(1, 10)), 10)

mirror ==
    Material_new(One, <<Zero, FromInt(10), Lit(8, 10), Zero>>,
                 Rgb(One, One, One), 1425)

\* A point given in whole units.
P(x, y, z) == Vec3(FromInt(x), FromInt(y), FromInt(z))

MainSpheres ==
    << Sphere_new(P(-3, 0, -16), FromInt(2), ivory),
       Sphere_new(Vec3(FromInt(-1), Lit(-15, 10), FromInt(-12)), FromInt(2),
                  glass),
       Sphere_new(Vec3(Lit(15, 10), Lit(-5, 10), FromInt(-18)), FromInt(3),
                  red_rubber),
       Sphere_new(P(7, 5, -18), FromInt(4), mirror) >>

MainLights ==
    << Light_new(P(-20, 20, 20), Lit(15, 10)),
       Light_new(P(30, 50, -25), Lit(18, 10)),
       Light_new(P(30, 20, 30), Lit(17, 10)) >>

\* No sphere, no light.
EmptyScene == [spheres |-> <<>>, lights |-> <<>>]

MainScene == [spheres |-> MainSpheres, lights |-> MainLights]

\* The camera inside a mirror sphere, one light inside it.
EnclosedScene ==
    [spheres |-> << Sphere_new(P(0, 0, -2), FromInt(9), mirror) >>,
     lights |-> << Light_new(P(0, 3, -2), Lit(15, 10)) >>]

\* A sphere under the plane; a light more than the cutoff away, with a
\* sphere in front of it that is itself more than the cutoff away; and a
\* near light.
FarScene ==
    [spheres |-> << Sphere_new(P(0, -8, -20), FromInt(3), glass),
                    Sphere_new(P(0, 1050, -15), FromInt(20), ivory) >>,
     lights |-> << Light_new(P(0, 1100, -15), Lit(15, 10)),
                   Light_new(P(-20, 20, 20), Lit(15, 10)) >>]

Scenes == {EmptyScene, MainScene, EnclosedScene, FarScene}

Init ==
    /\ \E sc \in Scenes : spheres = sc.spheres /\ lights = sc.lights
    /\ stack = <<>>
    /\ ret = None
    /\ rpc = "trace"
    /\ px = 1
    /\ framebuffer = <<>>
    /\ out = <<>>
    /\ probe = None

Next ==
    \/ RenderCast
    \/ CastRayStep
    \/ RenderStore
    \/ RenderEmit

Spec == Init /\ [][Next]_vars

(***************************************************************************)
(* cast_ray called on its own, with any depth: the arguments are drawn     *)
(* from the scenes, the sampled camera rays and 0 .. MaxCallDepth, and     *)
(* probe keeps them.                                                       *)
(***************************************************************************)
MaxCallDepth == 6

CallRays == {PrimaryRay(p) : p \in 1 .. NumPixels}

InitCastRay ==
    /\ \E sc \in Scenes : spheres = sc.spheres /\ lights = sc.lights
    /\ \E ray \in CallRays, depth \in 0 .. MaxCallDepth :
          /\ stack = <<Frame(ray, depth)>>
          /\ probe = [ray |-> ray, depth |-> depth]
    /\ ret = None
    /\ rpc = "call"
    /\ px = 1
    /\ framebuffer = <<>>
    /\ out = <<>>

SpecCastRay == InitCastRay /\ [][CastRayStep]_vars

(***************************************************************************)
(* Sphere::intersect applied on its own.  The centre, the radius and the   *)
(* origin are whole numbers; the direction is dn / n for a whole vector dn *)
(* of length n, so that the geometry can be decided in whole numbers.      *)
(***************************************************************************)
SphereReach == 2

MaxRadius == 2

Coords == (-SphereReach) .. SphereReach

Origins == {<<0, 0, 0>>, <<1, -2, 1>>}

Directions ==
    { [dn |-> <<0, 0, -1>>, n |-> 1], [dn |-> <<0, 0, 1>>, n |-> 1],
      [dn |-> <<1, 0, 0>>, n |-> 1], [dn |-> <<-1, 0, 0>>, n |-> 1],
      [dn |-> <<0, 1, 0>>, n |-> 1], [dn |-> <<0, -1, 0>>, n |-> 1],
      [dn |-> <<3, 4, 0>>, n |-> 5], [dn |-> <<0, -3, 4>>, n |-> 5],
      [dn |-> <<-4, 0, -3>>, n |-> 5], [dn |-> <<2, -3, 6>>, n |-> 7],
      [dn |-> <<-1, 2, -2>>, n |-> 3] }

PI(v) == P(v[1], v[2], v[3])

\* The unit vector dn / n.
Unit(d) == Vec3(Lit(d.dn[1], d.n), Lit(d.dn[2], d.n), Lit(d.dn[3], d.n))

ProbeSphere == Sphere_new(PI(probe.center), FromInt(probe.radius), ivory)

ProbeRay == Ray_new(PI(probe.origin), Unit(probe.dir))

InitSphere ==
    /\ \E cx \in Coords, cy \in Coords, cz \in Coords, r \in 1 .. MaxRadius,
          o \in Origins, d \in Directions :
          probe = [center |-> <<cx, cy, cz>>, radius |-> r, origin |-> o,
                   dir |-> d, done |-> FALSE, result |-> None]
    /\ spheres = <<>> /\ lights = <<>> /\ stack = <<>> /\ ret = None
    /\ rpc = "apply" /\ px = 1 /\ framebuffer = <<>> /\ out = <<>>

ApplySphere ==
    /\ rpc = "apply" /\ ~probe.done
    /\ probe' = [probe EXCEPT !.done = TRUE,
                              !.result = Sphere_intersect(ProbeSphere, ProbeRay)]
    /\ UNCHANGED <<spheres, lights, stack, ret, rpc, px, framebuffer, out>>

SpecSphere == InitSphere /\ [][ApplySphere]_vars

\* The whole-number geometry of the probe: l is center - origin, ln is
\* n * (l . direction), and off is n^2 * (d^2 - radius^2) for d the distance
\* from the centre to the line.
C4_l == <<probe.center[1] - probe.origin[1], probe.center[2] - probe.origin[2],
          probe.center[3] - probe.origin[3]>>

IDot(a, b) == a[1] * b[1] + a[2] * b[2] + a[3] * b[3]

C4_ln == IDot(C4_l, probe.dir.dn)

C4_off ==
    probe.dir.n * probe.dir.n * (IDot(C4_l, C4_l) - probe.radius * probe.radius)
        - C4_ln * C4_ln

\* The origin is outside the sphere.
C4_Outside == IDot(C4_l, C4_l) > probe.radius * probe.radius

\* The direction is along an axis: its coordinates are exact.
C4_Axis == probe.dir.n = 1

\* C4 as stated, for an origin outside the sphere: a line that passes
\* strictly within radius of the centre gives Some, a line that stays
\* farther than radius gives None.
C4_SomeIffLineWithin ==
    (probe.done /\ C4_Outside)
        => /\ C4_off < 0 => IsSome(probe.result)
           /\ C4_off > 0 => ~IsSome(probe.result)

\* C4, amended, for an origin outside the sphere: the result is Some when
\* the line passes strictly within radius of the centre and the centre is
\* ahead of the origin; it is None when the line stays farther than radius,
\* and None when the centre is behind the origin even though the line passes
\* within radius.  A line that touches the sphere ahead gives Some when the
\* direction is exact.
C4_SomeIffWithinAndAhead ==
    (probe.done /\ C4_Outside)
        => /\ (C4_off < 0 /\ C4_ln > 0) => IsSome(probe.result)
           /\ (C4_off > 0 \/ C4_ln < 0) => ~IsSome(probe.result)
           /\ (C4_off = 0 /\ C4_ln > 0 /\ C4_Axis) => IsSome(probe.result)

\* A sphere behind the origin whose line passes within radius: None.
C4_BehindIsNone ==
    /\ probe.done /\ C4_Outside /\ C4_off < 0 /\ C4_ln < 0
    /\ ~C4_Axis /\ probe.result = None

(***************************************************************************)
(* Scene::intersect applied on its own: to the sampled primary rays, and   *)
(* to vertical rays that start at height 0 over the points                 *)
(* (kx / 2, -(20 + kz) / 2) of a grid and go down or up.                   *)
(***************************************************************************)
GridX == 4

GridZ == 8

\* A sphere under the plane.
UnderSpheres == << Sphere_new(P(0, -8, -12), FromInt(3), glass) >>

\* Two spheres in the same place, over the plane.
TwinSpheres ==
    << Sphere_new(P(0, -2, -12), FromInt(1), red_rubber),
       Sphere_new(P(0, -2, -12), FromInt(1), mirror) >>

\* A sphere farther away than the cutoff, and a near one.
FarSpheres ==
    << Sphere_new(P(0, 1050, -12), FromInt(20), ivory),
       Sphere_new(Vec3(FromInt(1), Lit(-5, 2), FromInt(-13)), One, glass) >>

ProbeSpheres == {<<>>, MainSpheres, UnderSpheres, TwinSpheres, FarSpheres}

\* The vertical ray over the grid point (kx, kz), going up (dy = 1) or
\* down (dy = -1).
GridRay(kx, kz, dy) ==
    Ray_new(Vec3(Lit(kx, 2), Zero, Lit(-(20 + kz), 2)),
            Vec3(Zero, FromInt(dy), Zero))

GridProbes ==
    { [kind |-> "grid", kx |-> kx, kz |-> kz, dy |-> dy,
       ray |-> GridRay(kx, kz, dy)] :
         kx \in (-GridX) .. GridX, kz \in 0 .. GridZ, dy \in {-1, 1} }

PrimaryProbes ==
    { [kind |-> "primary", kx |-> 0, kz |-> 0, dy |-> 0, ray |-> PrimaryRay(p)] :
         p \in 1 .. NumPixels }

InitScene ==
    /\ spheres \in ProbeSpheres
    /\ \E a \in GridProbes \cup PrimaryProbes :
          probe = [arg |-> a, done |-> FALSE, result |-> None]
    /\ lights = <<>> /\ stack = <<>> /\ ret = None
    /\ rpc = "apply" /\ px = 1 /\ framebuffer = <<>> /\ out = <<>>

ApplyScene ==
    /\ rpc = "apply" /\ ~probe.done
    /\ probe' = [probe EXCEPT !.done = TRUE,
                              !.result = Scene_intersect(spheres, probe.arg.ray)]
    /\ UNCHANGED <<spheres, lights, stack, ret, rpc, px, framebuffer, out>>

SpecScene == InitScene /\ [][ApplyScene]_vars

\* The distance at which the ray of the probe meets the i-th sphere.
C5_Dist(i) == Sphere_intersect(spheres[i], probe.arg.ray)

C5_Met == {i \in 1 .. Len(spheres) : IsSome(C5_Dist(i))}

\* The nearest sphere met, the earlier one of two at the same distance.
C5_Nearest ==
    CHOOSE i \in C5_Met :
        \A j \in C5_Met :
            \/ FLt(Unwrap(C5_Dist(i)), Unwrap(C5_Dist(j)))
            \/ Unwrap(C5_Dist(i)) = Unwrap(C5_Dist(j)) /\ i <= j

\* The ray meets the plane inside the board, in front of its origin.
C5_PlaneMet ==
    /\ PlaneTested(probe.arg.ray)
    /\ PlaneInside(PlaneDistance(probe.arg.ray), PlanePoint(probe.arg.ray),
                   F64_MAX)

\* The plane is the nearest primitive.
C5_PlaneNearest ==
    /\ C5_PlaneMet
    /\ C5_Met # {}
          => FLt(PlaneDistance(probe.arg.ray), Unwrap(C5_Dist(C5_Nearest)))

\* The distance of the nearest primitive, there being one.
C5_MinDist ==
    IF C5_PlaneNearest THEN PlaneDistance(probe.arg.ray)
    ELSE Unwrap(C5_Dist(C5_Nearest))

\* The point at distance d along the ray of the probe.
C5_At(d) == VAdd(probe.arg.ray.origin, VScale(probe.arg.ray.direction, d))

\* The hit that belongs to the i-th sphere.
C5_OfSphere(i) ==
    [point |-> C5_At(Unwrap(C5_Dist(i))),
     v_normal |-> Normalized(VSub(C5_At(Unwrap(C5_Dist(i))), spheres[i].center)),
     material |-> spheres[i].material]

\* The hit that belongs to the plane: the default material, with the colour
\* of the square.
C5_OfPlane ==
    [point |-> PlanePoint(probe.arg.ray), v_normal |-> Vec3(Zero, One, Zero),
     material |-> [Material_default EXCEPT
                      !.diffuse_color = CheckerColor(PlanePoint(probe.arg.ray))]]

\* C5: Scene::intersect gives the point, normal and material of the nearest
\* primitive among the spheres met and the plane (the earlier sphere on equal
\* distances) when that primitive is nearer than 1000, and nothing otherwise.
C5_NearestPrimitive ==
    probe.done
        => probe.result =
             IF (C5_Met = {} /\ ~C5_PlaneMet) \/ ~FLt(C5_MinDist, FromInt(1000))
             THEN None
             ELSE IF C5_PlaneNearest THEN Some(C5_OfPlane)
             ELSE Some(C5_OfSphere(C5_Nearest))

\* C6: a hit on the plane has the albedo [1, 0, 0, 0], the refractive index
\* 1 and the specular exponent 0 of the default material, whatever the
\* spheres are.
C6_PlaneMaterialIsDefault ==
    (probe.done /\ IsSome(probe.result)
       /\ Scene_plane(spheres, probe.arg.ray))
        => /\ Unwrap(probe.result).material.albedo = <<One, Zero, Zero, Zero>>
           /\ Unwrap(probe.result).material.refractive_index = One
           /\ Unwrap(probe.result).material.specular_exponent = 0

\* The probe is a ray going down onto the plane, and the hit is the plane's.
C8_OnBoard ==
    /\ probe.done /\ probe.arg.kind = "grid" /\ probe.arg.dy = -1
    /\ IsSome(probe.result) /\ Scene_plane(spheres, probe.arg.ray)

\* Half the coordinates of the grid point, in whole numbers: 0.5 * x is
\* kx / 4 and 0.5 * z is -(20 + kz) / 4.
C8_FloorHalfX == probe.arg.kx \div 4

C8_FloorHalfZ == (-(20 + probe.arg.kz)) \div 4

C8_CeilHalfZ == -((20 + probe.arg.kz) \div 4)

\* The colour of the square for a sum of parity n % 2.
C8_Shade(n) ==
    IF n % 2 = 1 THEN Rgb(Lit(3, 10), Lit(3, 10), Lit(3, 10))
    ELSE Rgb(Lit(3, 10), Lit(2, 10), Lit(1, 10))

\* C8 as stated: the colour of a plane hit is (0.3, 0.3, 0.3) when
\* floor(0.5 * x) + floor(0.5 * z) is odd and (0.3, 0.2, 0.1) when it is even.
C8_ParityOfFloors ==
    C8_OnBoard
        => Unwrap(probe.result).material.diffuse_color
             = C8_Shade(C8_FloorHalfX + C8_FloorHalfZ)

\* C8, amended: the colour of a plane hit is (0.3, 0.3, 0.3) when
\* floor(0.5 * x) + ceil(0.5 * z) is odd and (0.3, 0.2, 0.1) when it is even:
\* the conversions round toward zero, x is shifted by 1000 first, and z is
\* negative on the board.
C8_ParityOfTruncations ==
    C8_OnBoard
        => Unwrap(probe.result).material.diffuse_color
             = C8_Shade(C8_FloorHalfX + C8_CeilHalfZ)

\* A plane hit where 0.5 * z is no whole number and x is negative.
C8_BetweenLines ==
    /\ C8_OnBoard /\ probe.arg.kx < 0 /\ probe.arg.kx % 4 # 0
    /\ (20 + probe.arg.kz) % 4 # 0
    /\ Unwrap(probe.result).material.diffuse_color
         = Rgb(Lit(3, 10), Lit(3, 10), Lit(3, 10))

(***************************************************************************)
(* The tone mapping of render applied on its own, to the colours whose     *)
(* channels are the quarters from -1/4 to ToneQuarters / 4.                *)
(***************************************************************************)
ToneQuarters == 8

Quarters == (-1) .. ToneQuarters

\* The colour of channels q[1] / 4, q[2] / 4, q[3] / 4.
ToneColor(q) == Rgb(Lit(q[1], 4), Lit(q[2], 4), Lit(q[3], 4))

InitTone ==
    /\ \E r \in Quarters, g \in Quarters, b \in Quarters :
          probe = [arg |-> <<r, g, b>>, done |-> FALSE, result |-> <<>>]
    /\ spheres = <<>> /\ lights = <<>> /\ stack = <<>> /\ ret = None
    /\ rpc = "apply" /\ px = 1 /\ framebuffer = <<>> /\ out = <<>>

ApplyTone ==
    /\ rpc = "apply" /\ ~probe.done
    /\ probe' = [probe EXCEPT !.done = TRUE,
                              !.result = ToneMap(ToneColor(probe.arg))]
    /\ UNCHANGED <<spheres, lights, stack, ret, rpc, px, framebuffer, out>>

SpecTone == InitTone /\ [][ApplyTone]_vars

\* The largest channel of the probe and 0, in quarters.
C7_Max ==
    IF probe.arg[1] >= probe.arg[2] /\ probe.arg[1] >= probe.arg[3]
    THEN (IF probe.arg[1] > 0 THEN probe.arg[1] ELSE 0)
    ELSE IF probe.arg[2] >= probe.arg[3]
         THEN (IF probe.arg[2] > 0 THEN probe.arg[2] ELSE 0)
         ELSE (IF probe.arg[3] > 0 THEN probe.arg[3] ELSE 0)

\* What the channels are divided by, in quarters: the largest channel when
\* it is above 1, and 1 otherwise.
C7_Divisor == IF C7_Max > 4 THEN C7_Max ELSE 4

\* The channel q, divided and clamped to [0, 1], times C7_Divisor.
C7_Clamped(q) == IF q < 0 THEN 0 ELSE IF q > C7_Divisor THEN C7_Divisor ELSE q

\* byte is 255 times the clamped channel with its fraction cut off.
C7_ByteOf(byte, q) ==
    /\ byte * C7_Divisor <= 255 * C7_Clamped(q)
    /\ 255 * C7_Clamped(q) < (byte + 1) * C7_Divisor

\* C7: each byte written is 255 times the channel, divided by the largest
\* channel when that is above 1 and clamped to [0, 1], with the fraction cut
\* off; it lies in 0 .. 255; the largest channel is written as 255 when it
\* is above 1; and (2.0, 1.0, 0.5) is written as (255, 127 or 128, 63 or 64).
C7_ToneMapping ==
    probe.done
        => /\ \A k \in 1 .. 3 :
                 /\ probe.result[k] \in 0 .. 255
                 /\ C7_ByteOf(probe.result[k], probe.arg[k])
                 /\ (C7_Max > 4 /\ probe.arg[k] = C7_Max)
                       => probe.result[k] = 255
           /\ probe.arg = <<8, 4, 2>>
                 => /\ probe.result[1] = 255
                    /\ probe.result[2] \in {127, 128}
                    /\ probe.result[3] \in {63, 64}

\* The colour (2.0, 1.0, 0.5) has been mapped.
C7_TwoOneHalf ==
    /\ probe.done /\ probe.arg = <<8, 4, 2>>
    /\ probe.result = <<255, 127, 63>>

(***************************************************************************)
(* Properties of cast_ray and render.                                      *)
(***************************************************************************)
\* C1: a call of cast_ray with depth > 4 returns, as its one step and
\* whatever the ray, the spheres and the lights are, the colour
\* (0.2, 0.7, 0.8) and its depth.
C1_DeepCallReturnsBackground ==
    [][(Running /\ Top.pc = "start" /\ Top.depth > 4)
         => /\ stack' = Pop
            /\ ret' = Some([color |-> Rgb(Lit(2, 10), Lit(7, 10), Lit(8, 10)),
                            depth |-> Top.depth])]_vars

\* A call with depth > 4 has returned, for a ray that hits the scene.
C1_DeepCallOnHit ==
    /\ rpc = "call" /\ stack = <<>> /\ IsSome(ret)
    /\ probe.depth > 4 /\ Unwrap(ret).depth = probe.depth
    /\ IsSome(Scene_intersect(spheres, probe.ray))

\* The bytes of the background colour.
BackgroundBytes == <<51, 178, 204>>

\* C2 as stated: with no sphere and no light every pixel written is
\* (51, 178, 204).
C2_EveryPixelBackground ==
    (spheres = <<>> /\ lights = <<>>)
        => \A i \in 1 .. Len(out) : out[i] = BackgroundBytes

\* The primary ray of the p-th pixel meets the checkerboard plane.
PrimaryMeetsPlane(p) == IsSome(Scene_intersect(<<>>, PrimaryRay(p)))

\* C2, amended: with no sphere and no light a pixel is written as
\* (51, 178, 204) when its primary ray misses the checkerboard plane, and as
\* (0, 0, 0) when it meets the plane.
C2_BackgroundOffThePlane ==
    (spheres = <<>> /\ lights = <<>>)
        => \A i \in 1 .. Len(out) :
              out[i] = IF PrimaryMeetsPlane(i) THEN <<0, 0, 0>>
                       ELSE BackgroundBytes

\* The empty scene rendered, with pixels of both kinds.
C2_EmptySceneRendered ==
    /\ spheres = <<>> /\ lights = <<>> /\ rpc = "done"
    /\ \E i \in 1 .. Len(out) : out[i] = BackgroundBytes
    /\ \E i \in 1 .. Len(out) : out[i] = <<0, 0, 0>> /\ PrimaryMeetsPlane(i)

\* C10 as stated: at most 5 activations of cast_ray are nested at a time.
C10_StackAtMostFive == Len(stack) <= 5

\* C10, amended: at most 6 activations of cast_ray (depths 0 to 5) are
\* nested at a time during a call render starts.
C10_StackAtMostSix == rpc = "trace" => Len(stack) <= 6

\* Six activations nested, of depths 0 to 5.
C10_SixNested ==
    /\ rpc = "trace" /\ Len(stack) = 6
    /\ \A i \in 1 .. 6 : stack[i].depth = i - 1

\* Every activation has the depth of its caller plus one (0 for the call of
\* render), has made at most two nested calls, and has a depth of at most 5.
C9_Shape ==
    \A i \in 1 .. Len(stack) :
        /\ stack[i].depth = i - 1
        /\ stack[i].calls <= 2
        /\ stack[i].depth <= 5

\* The running activation can take its next step: it waits for a nested
\* call exactly when that call has just returned.
C9_NotStuck ==
    Len(stack) > 0
        => IF Top.pc \in {"reflect", "refract"} THEN IsSome(ret)
           ELSE ret = None

RECURSIVE C9_CallSteps(_)
\* The most steps a call of depth d can take: 1 at depth 5 and beyond; else
\* the hit, both nested calls and the step after each, a step per light and
\* the return.
C9_CallSteps(d) ==
    IF d >= 5 THEN 1 ELSE 2 * C9_CallSteps(d + 1) + Len(lights) + 4

\* The most steps the activation f itself and its nested calls not yet made
\* can still take.
C9_FrameSteps(f) ==
    CASE f.pc = "start" -> C9_CallSteps(f.depth)
      [] f.pc = "reflect" -> C9_CallSteps(f.depth + 1) + Len(lights) + 3
      [] f.pc = "refract" -> Len(lights) + 2
      [] f.pc = "lights" -> Len(lights) + 2 - f.light

RECURSIVE C9_StackSteps(_)
C9_StackSteps(n) ==
    IF n = 0 THEN 0 ELSE C9_StackSteps(n - 1) + C9_FrameSteps(stack[n])

\* The steps left in the call in progress.
C9_Work == C9_StackSteps(Len(stack))

\* C9: the call render makes at depth 0 returns: every step of it lowers
\* a number that cannot go below 0, and the running activation can always
\* step.  Every nested call has its caller's depth plus one, no activation
\* makes more than two nested calls, and no activation has a depth above 5.
C9_Terminates ==
    /\ [](C9_Shape /\ C9_NotStuck /\ C9_Work >= 0)
    /\ [][Len(stack) > 0 => C9_Work' < C9_Work]_vars

\* A call of depth 0 has returned after making its two nested calls.
C9_ReturnedAfterNesting ==
    /\ rpc = "trace" /\ Len(stack) = 0 /\ IsSome(ret)
    /\ Unwrap(ret).depth = 0
    /\ Unwrap(ret).color # BackgroundColor

\* A sphere is met by the shadow ray of light, nearer than the light.
SphereBetween(f, light) ==
    \E i \in 1 .. Len(spheres) :
        /\ IsSome(Sphere_intersect(spheres[i], ShadowRay(f, light)))
        /\ FLt(Unwrap(Sphere_intersect(spheres[i], ShadowRay(f, light))),
               LightDistance(f, light))

\* The light adds nothing: a sphere is between, or the code skips it.
C3_Dark(f, light) == SphereBetween(f, light) \/ Shadowed(f, light)

RECURSIVE C3_Diffuse(_, _)
\* The diffuse sum over the first k lights, those with a sphere between
\* left out.
C3_Diffuse(f, k) ==
    IF k = 0 THEN Zero
    ELSE IF C3_Dark(f, lights[k]) THEN C3_Diffuse(f, k - 1)
    ELSE FAdd(C3_Diffuse(f, k - 1), DiffuseTerm(f, lights[k]))

RECURSIVE C3_Specular(_, _)
\* The specular sum over the first k lights, those with a sphere between
\* left out.
C3_Specular(f, k) ==
    IF k = 0 THEN Zero
    ELSE IF C3_Dark(f, lights[k]) THEN C3_Specular(f, k - 1)
    ELSE FAdd(C3_Specular(f, k - 1), SpecularTerm(f, lights[k]))

\* C3 as stated: in the loop over the lights, a light with a sphere between
\* the hit point and it has added nothing to the diffuse and specular sums,
\* and every other light has added what the code adds for it.
C3_OccludedLightAddsNothing ==
    (Len(stack) > 0 /\ Top.pc = "lights")
        => /\ Top.diffuse_light_intensity = C3_Diffuse(Top, Top.light - 1)
           /\ Top.specular_light_intensity = C3_Specular(Top, Top.light - 1)

=============================================================================
